---- MODULE Spec2Model ----
(***************************************************************************)
(* Model of the decision engine of sui-rgp-autopilot:                      *)
(*   src/src/computeRgp.js  - computeNewRgpFromInputs, chooseJitter,       *)
(*                            roundToStep, clamp                           *)
(*   src/src/metrics.js     - extractEpoch, toBigIntOrNull, collectMetrics *)
(*                                                                         *)
(* JavaScript numbers are modelled as exact rationals (binary rounding     *)
(* error of IEEE doubles is abstracted away); NaN, null and undefined are  *)
(* separate values with the coercions the language applies to them.        *)
(***************************************************************************)
EXTENDS Integers, Sequences, FiniteSets, TLC

VARIABLES
    cpc,      \* calculator: "call" | "returned" | "threw"
    args,     \* calculator: the four required inputs and the options object
    ret,      \* calculator: the object computeNewRgpFromInputs returned
    mpc,      \* metrics: "idle" | "extract" | "extracted" | "collect" | "done" | "threw"
    node,     \* metrics: the raw epoch node handed to extractEpoch
    metric,   \* metrics: what extractEpoch returned for node
    nodes,    \* metrics: the epochs.nodes array collectMetrics received
    payload,  \* metrics: what collectMetrics produced
    rnd,      \* rounding: a value, a step and what roundToStep made of them
    env,      \* process.env, as far as the program reads it
    run,      \* runOnceMainnet: position, pushes made, on-chain submissions
    registry  \* prom-client's global registry: the names of the registered gauges

vars == <<cpc, args, ret, mpc, node, metric, nodes, payload, rnd, env, run, registry>>
roundVars == <<rnd>>
runVars == <<env, run, registry>>
calcVars == <<cpc, args, ret>>
metricVars == <<mpc, node, metric, nodes, payload>>

(***************************************************************************)
(* Bounds                                                                  *)
(***************************************************************************)
MaxJitter == 5      \* largest jitter base magnitude tried
MaxCost == 8        \* largest gas-cost figure of a raw record
MaxTx == 2          \* largest transaction count of a raw record
MaxEpochs == 3      \* longest epochs.nodes array
MaxRound == 12      \* largest value handed to roundToStep alone
MaxRuns == 2        \* scheduled runs of one process

(***************************************************************************)
(* JavaScript values                                                       *)
(***************************************************************************)
RECURSIVE GCD(_, _)
GCD(a, b) == IF b = 0 THEN a ELSE GCD(b, a % b)

Abs(i) == IF i < 0 THEN -i ELSE i

\* the number n/d (d > 0), in lowest terms
Num(n, d) == LET g == GCD(Abs(n), d) IN <<"num", n \div g, d \div g>>
Int2Num(i) == <<"num", i, 1>>
NaN == <<"nan", 0, 1>>
Null == <<"null", 0, 1>>
Undefined == <<"undef", 0, 1>>

\* ToNumber: null -> 0, undefined -> NaN
ToNum(x) == IF x = Null THEN Int2Num(0) ELSE IF x = Undefined THEN NaN ELSE x

\* Number.isFinite: false for every non-number
IsFinite(x) == x[1] = "num"
IsNullish(x) == x = Null \/ x = Undefined
IsInteger(x) == x[1] = "num" /\ x[3] = 1

\* arithmetic: NaN-propagating, null coerced to 0; common factors are
\* cancelled before multiplying so that intermediate values stay small
Add(x, y) == LET a == ToNum(x)  b == ToNum(y)
             IN  IF a[1] # "num" \/ b[1] # "num" THEN NaN
                 ELSE LET g == GCD(a[3], b[3])
                      IN  Num(a[2] * (b[3] \div g) + b[2] * (a[3] \div g), (a[3] \div g) * b[3])
Neg(x) == LET a == ToNum(x) IN IF a[1] # "num" THEN NaN ELSE <<"num", -a[2], a[3]>>
Sub(x, y) == Add(x, Neg(y))
Mul(x, y) == LET a == ToNum(x)  b == ToNum(y)
             IN  IF a[1] # "num" \/ b[1] # "num" THEN NaN
                 ELSE LET g1 == GCD(Abs(a[2]), b[3])
                          g2 == GCD(Abs(b[2]), a[3])
                      IN  Num((a[2] \div g1) * (b[2] \div g2), (a[3] \div g2) * (b[3] \div g1))
\* division; x/0 is +-Infinity or NaN, none of them finite
Div(x, y) == LET a == ToNum(x)  b == ToNum(y)
             IN  IF a[1] # "num" \/ b[1] # "num" \/ b[2] = 0 THEN NaN
                 ELSE IF b[2] > 0 THEN Mul(a, <<"num", b[3], b[2]>>)
                 ELSE Mul(a, <<"num", -b[3], -b[2]>>)

\* relational operators: false as soon as an operand converts to NaN
Lt(x, y) == LET d == Sub(x, y) IN d[1] = "num" /\ d[2] < 0
Gt(x, y) == Lt(y, x)
Le(x, y) == LET d == Sub(x, y) IN d[1] = "num" /\ d[2] <= 0

MathFloor(x) == LET a == ToNum(x) IN
    IF a[1] # "num" THEN NaN ELSE Int2Num(a[2] \div a[3])
MathCeil(x) == LET a == ToNum(x) IN
    IF a[1] # "num" THEN NaN ELSE Int2Num(-((-a[2]) \div a[3]))
\* Math.round: nearest integer, halves toward +Infinity
MathRound(x) == LET a == ToNum(x) IN
    IF a[1] # "num" THEN NaN ELSE Int2Num((2 * a[2] + a[3]) \div (2 * a[3]))
MathMax(x, y) == LET a == ToNum(x)  b == ToNum(y)
                 IN  IF a[1] # "num" \/ b[1] # "num" THEN NaN
                     ELSE IF Lt(a, b) THEN b ELSE a
MathMin(x, y) == LET a == ToNum(x)  b == ToNum(y)
                 IN  IF a[1] # "num" \/ b[1] # "num" THEN NaN
                     ELSE IF Lt(b, a) THEN b ELSE a

(***************************************************************************)
(* computeRgp.js helpers                                                   *)
(***************************************************************************)
DefaultRoundStep == 10

\* the variant that rounds up: Math.floor(x / step) + 1
roundToStepUp(x, step) ==
    LET st == IF step = Undefined THEN Int2Num(DefaultRoundStep) ELSE step
    IN  IF ~IsFinite(x) \/ Le(st, Int2Num(0)) THEN x
        ELSE Mul(Add(MathFloor(Div(x, st)), Int2Num(1)), st)

\* variant: rounds to the nearest integer and forgets the step
roundToStepNoStep(x, step) ==
    LET st == IF step = Undefined THEN Int2Num(DefaultRoundStep) ELSE step
    IN  IF ~IsFinite(x) \/ Le(st, Int2Num(0)) THEN x
        ELSE MathRound(x)

roundToStep(x, step) ==
    LET st == IF step = Undefined THEN Int2Num(DefaultRoundStep) ELSE step
    IN  IF ~IsFinite(x) \/ Le(st, Int2Num(0)) THEN x
        ELSE Mul(MathRound(Div(x, st)), st)

\* variant: the upper bound is never applied
clampNoMax(x, lo, hi) ==
    IF lo # Undefined /\ Lt(x, lo) THEN lo ELSE x

clamp(x, lo, hi) ==
    IF lo # Undefined /\ Lt(x, lo) THEN lo
    ELSE IF hi # Undefined /\ Gt(x, hi) THEN hi
    ELSE x

\* the values Math.floor(Math.random() * (b - a + 1)) + a can take, a and b integers
randInt(a, b) ==
    LET n == b - a + 1
    IN  IF n > 0 THEN a .. b
        ELSE IF n = 0 THEN {a}
        ELSE (b + 1) .. a

ToInt(x) == x[2]

\* the set of values chooseJitter can return; baseLow and baseHigh are
\* integers and the clamp bounds are null or finite
chooseJitter(R_clamped, clampMin, clampMax, baseLow, baseHigh) ==
    IF IsNullish(clampMin) \/ IsNullish(clampMax)
    THEN randInt(-baseLow, baseHigh)
    ELSE IF IsFinite(clampMin) /\ R_clamped = clampMin
    THEN randInt(0, baseHigh)
    ELSE IF IsFinite(clampMax) /\ R_clamped = clampMax
    THEN randInt(-baseLow, 0)
    ELSE LET lowRoom == MathCeil(Sub(clampMin, R_clamped))
             highRoom == MathFloor(Sub(clampMax, R_clamped))
             lo == MathMax(Int2Num(-baseLow), lowRoom)
             hi == MathMin(Int2Num(baseHigh), highRoom)
         IN  IF Gt(lo, hi) THEN {0}
             ELSE randInt(ToInt(lo), ToInt(hi))

(***************************************************************************)
(* computeNewRgpFromInputs                                                 *)
(***************************************************************************)
DefaultLowPct == -20
DefaultHighPct == 40
DefaultJitterMagnitude == 5

\* variant: a zero share passes the check
validationErrorZeroShare(a) ==
    IF ~IsFinite(a.targetAvgTxUsd) \/ Le(a.targetAvgTxUsd, Int2Num(0))
    THEN "Invalid TARGET_AVG_TX_USD (must be a positive number)"
    ELSE IF ~IsFinite(a.compShare) \/ Lt(a.compShare, Int2Num(0)) \/ Gt(a.compShare, Int2Num(1))
    THEN "Invalid avgCompShare (must be in (0,1])"
    ELSE IF ~IsFinite(a.compCostUsd) \/ Le(a.compCostUsd, Int2Num(0))
    THEN "Invalid avgComputationCostPerTx_USD (must be > 0)"
    ELSE IF ~IsFinite(a.currentRgp) \/ Le(a.currentRgp, Int2Num(0))
    THEN "Invalid current RGP (must be > 0)"
    ELSE ""

\* the message of the Error the precondition checks throw, "" when they pass
validationError(a) ==
    IF ~IsFinite(a.targetAvgTxUsd) \/ Le(a.targetAvgTxUsd, Int2Num(0))
    THEN "Invalid TARGET_AVG_TX_USD (must be a positive number)"
    ELSE IF ~IsFinite(a.compShare) \/ Le(a.compShare, Int2Num(0)) \/ Gt(a.compShare, Int2Num(1))
    THEN "Invalid avgCompShare (must be in (0,1])"
    ELSE IF ~IsFinite(a.compCostUsd) \/ Le(a.compCostUsd, Int2Num(0))
    THEN "Invalid avgComputationCostPerTx_USD (must be > 0)"
    ELSE IF ~IsFinite(a.currentRgp) \/ Le(a.currentRgp, Int2Num(0))
    THEN "Invalid current RGP (must be > 0)"
    ELSE ""

\* guardRailsPct?.[i] ?? def
pctOrDefault(gp, i, def) ==
    IF ~gp.def \/ IsNullish(gp.v[i]) THEN Int2Num(def) ELSE gp.v[i]

\* variant: cost and target change places
scaleFactorCostOverTarget(a) == Div(Mul(a.compShare, a.compCostUsd), a.targetAvgTxUsd)

\* k = (compShare * targetAvgTxUsd) / compCostUsd
scaleFactor(a) == Div(Mul(a.compShare, a.targetAvgTxUsd), a.compCostUsd)

\* the guard-rail bounds <<clampMin, clampMax>>
clampBounds(currentRgp, o) ==
    IF o.guardRailsEnabled
    THEN LET lowPct == pctOrDefault(o.guardRailsPct, 1, DefaultLowPct)
             highPct == pctOrDefault(o.guardRailsPct, 2, DefaultHighPct)
         IN  << Mul(currentRgp, Add(Int2Num(1), Div(lowPct, Int2Num(100)))),
                Mul(currentRgp, Add(Int2Num(1), Div(highPct, Int2Num(100)))) >>
    ELSE <<Null, Null>>

\* jitterRange || [5, 5]
baseMagnitudes(o) ==
    IF o.jitterRange.def THEN o.jitterRange.v
    ELSE <<DefaultJitterMagnitude, DefaultJitterMagnitude>>

\* variant: the lower bound of 1 is forgotten
finalAssemblyNoFloor(R_afterJitter, o) ==
    LET r0 == roundToStep(R_afterJitter, o.roundStep)
        r1 == IF IsFinite(o.minRgpMist) THEN MathMax(r0, o.minRgpMist) ELSE r0
        r2 == IF IsFinite(o.maxRgpMist) THEN MathMin(r1, o.maxRgpMist) ELSE r1
    IN  MathRound(r2)

\* round -> absolute min -> absolute max -> at least 1, integer
finalAssembly(R_afterJitter, o) ==
    LET r0 == roundToStep(R_afterJitter, o.roundStep)
        r1 == IF IsFinite(o.minRgpMist) THEN MathMax(r0, o.minRgpMist) ELSE r0
        r2 == IF IsFinite(o.maxRgpMist) THEN MathMin(r1, o.maxRgpMist) ELSE r1
    IN  MathMax(Int2Num(1), MathRound(r2))

NoRet ==
    [ error |-> "",
      inputs |-> [ guardRailsEnabled |-> FALSE, guardRailsPct |-> <<Undefined, Undefined>>,
                   roundStep |-> Undefined, minRgpMist |-> Undefined,
                   maxRgpMist |-> Undefined, jitterRange |-> <<0, 0>> ],
      calc |-> [ C_target |-> Undefined, k |-> Undefined, R_raw |-> Undefined,
                 clampMin |-> Undefined, clampMax |-> Undefined,
                 R_clamped |-> Undefined, jitter |-> 0, R_final |-> Undefined ],
      proposedRgpMist |-> Undefined ]

\* the object returned for valid inputs a when chooseJitter returned drawn
resultOf(a, drawn) ==
    LET o == a.options
        C_target == Mul(a.compShare, a.targetAvgTxUsd)
        k == scaleFactor(a)
        R_raw == Mul(a.currentRgp, k)
        cb == clampBounds(a.currentRgp, o)
        R_clamped == clamp(R_raw, cb[1], cb[2])
        base == baseMagnitudes(o)
        R_afterJitter == Add(R_clamped, Int2Num(drawn))
        R_final == finalAssembly(R_afterJitter, o)
    IN  [ error |-> "",
          inputs |-> [ guardRailsEnabled |-> o.guardRailsEnabled,
                       guardRailsPct |-> IF o.guardRailsPct.def THEN o.guardRailsPct.v
                                         ELSE <<Int2Num(DefaultLowPct), Int2Num(DefaultHighPct)>>,
                       roundStep |-> IF IsFinite(o.roundStep) /\ Gt(o.roundStep, Int2Num(0))
                                     THEN o.roundStep ELSE Int2Num(DefaultRoundStep),
                       minRgpMist |-> IF IsFinite(o.minRgpMist) THEN o.minRgpMist ELSE Null,
                       maxRgpMist |-> IF IsFinite(o.maxRgpMist) THEN o.maxRgpMist ELSE Null,
                       jitterRange |-> base ],
          calc |-> [ C_target |-> C_target, k |-> k, R_raw |-> R_raw,
                     clampMin |-> cb[1], clampMax |-> cb[2],
                     R_clamped |-> R_clamped, jitter |-> drawn, R_final |-> R_final ],
          proposedRgpMist |-> R_final ]

\* the jitter values the call with inputs a can draw
jitterChoices(a) ==
    LET k == scaleFactor(a)
        R_raw == Mul(a.currentRgp, k)
        cb == clampBounds(a.currentRgp, a.options)
        base == baseMagnitudes(a.options)
    IN  chooseJitter(clamp(R_raw, cb[1], cb[2]), cb[1], cb[2], base[1], base[2])

computeNewRgpFromInputs ==
    /\ cpc = "call"
    /\ IF validationError(args) # ""
       THEN /\ cpc' = "threw"
            /\ ret' = [NoRet EXCEPT !.error = validationError(args)]
       ELSE /\ cpc' = "returned"
            /\ \E drawn \in jitterChoices(args) : ret' = resultOf(args, drawn)
    /\ UNCHANGED <<args, metricVars, roundVars, runVars>>

(***************************************************************************)
(* Inputs of the calculator                                                *)
(***************************************************************************)
\* USD amounts are given in thousandths
TargetSet == { Num(1, 1000), Num(4, 1000), Int2Num(0), Num(-4, 1000), NaN, Undefined }
ShareSet == { Num(6, 10), Int2Num(1), Int2Num(0), Num(-1, 2), Num(3, 2), NaN }
CostUsdSet == { Num(1, 1000), Num(2, 1000), Int2Num(0), Num(-2, 1000), NaN }
RgpSet == { Int2Num(5), Int2Num(50), Int2Num(550), Int2Num(0), Int2Num(-50), Null, NaN }

PctSet == { [def |-> FALSE, v |-> <<Undefined, Undefined>>],
            [def |-> TRUE, v |-> <<Int2Num(-40), Int2Num(40)>>],
            [def |-> TRUE, v |-> <<Int2Num(-20), Int2Num(41)>>],
            [def |-> TRUE, v |-> <<Int2Num(0), Int2Num(0)>>],
            [def |-> TRUE, v |-> <<Int2Num(40), Int2Num(-40)>>],
            [def |-> TRUE, v |-> <<Undefined, Int2Num(40)>>] }
StepSet == { Undefined, Int2Num(0), Int2Num(1), Int2Num(10), Int2Num(100) }
MinSet == { Undefined, Int2Num(20), Int2Num(705) }
MaxSet == { Undefined, Int2Num(0), Int2Num(15), Num(31, 2), Int2Num(705) }
\* [-10, 10] is what computeRgp passes when RGP_JITTER_RANGE is not usable
JitterSet == { [def |-> FALSE, v |-> <<0, 0>>], [def |-> TRUE, v |-> <<-10, 10>>] } \cup
             { [def |-> TRUE, v |-> <<a, b>>] : a \in {0, MaxJitter}, b \in {0, MaxJitter} }

\* the options computeRgp passes when only TARGET_AVG_TX_USD is configured
\* and the jitter range is [5,5]
PlainOptions ==
    [ guardRailsEnabled |-> TRUE,
      guardRailsPct |-> [def |-> TRUE, v |-> <<Int2Num(-40), Int2Num(40)>>],
      roundStep |-> Int2Num(1), minRgpMist |-> Undefined, maxRgpMist |-> Undefined,
      jitterRange |-> [def |-> TRUE, v |-> <<5, 5>>] ]

OptionSet ==
    { [ guardRailsEnabled |-> TRUE, guardRailsPct |-> gp, roundStep |-> st,
        minRgpMist |-> mn, maxRgpMist |-> mx, jitterRange |-> jr ] :
        gp \in PctSet, st \in StepSet, mn \in MinSet, mx \in MaxSet, jr \in JitterSet }
    \cup
    { [ guardRailsEnabled |-> FALSE, guardRailsPct |-> PlainOptions.guardRailsPct,
        roundStep |-> st, minRgpMist |-> mn, maxRgpMist |-> mx, jitterRange |-> jr ] :
        st \in StepSet, mn \in MinSet, mx \in MaxSet, jr \in JitterSet }

ArgSet ==
    { [ targetAvgTxUsd |-> t, compShare |-> s, compCostUsd |-> c, currentRgp |-> r,
        options |-> o ] :
        t \in TargetSet, s \in ShareSet, c \in CostUsdSet, r \in RgpSet, o \in {PlainOptions} }
    \cup
    { [ targetAvgTxUsd |-> t, compShare |-> s, compCostUsd |-> c, currentRgp |-> r,
        options |-> o ] :
        t \in {Num(1, 1000), Num(4, 1000)}, s \in {Num(6, 10), Int2Num(1)},
        c \in {Num(1, 1000), Num(2, 1000)}, r \in {Int2Num(5), Int2Num(50), Int2Num(550)},
        o \in OptionSet }
    \cup
    { [ targetAvgTxUsd |-> Num(4, 1000), compShare |-> Num(6, 10),
        compCostUsd |-> Num(2, 1000), currentRgp |-> Int2Num(500), options |-> o ] :
        o \in OptionSet }

MetricsIdle ==
    /\ mpc = "idle"
    /\ node = <<>>
    /\ metric = <<>>
    /\ nodes = <<>>
    /\ payload = <<>>

\* roundToStep on its own: nothing rounded yet
RoundIdle == rnd = [pc |-> "idle", x |-> NaN, step |-> NaN, once |-> NaN, twice |-> NaN]

\* values in quarters and positive steps, whole and fractional
RoundValueSet == { Num(n, 4) : n \in (-4 * MaxRound)..(4 * MaxRound) }
RoundStepSet == { Int2Num(1), Int2Num(3), Int2Num(10), Num(5, 2), Num(1, 2) }

\* roundToStep(x, step)
RoundOnce ==
    /\ rnd.pc = "call"
    /\ rnd' = [rnd EXCEPT !.pc = "once", !.once = roundToStep(rnd.x, rnd.step)]
    /\ UNCHANGED <<calcVars, metricVars, runVars>>

\* roundToStep(roundToStep(x, step), step)
RoundTwice ==
    /\ rnd.pc = "once"
    /\ rnd' = [rnd EXCEPT !.pc = "twice", !.twice = roundToStep(rnd.once, rnd.step)]
    /\ UNCHANGED <<calcVars, metricVars, runVars>>

\* runOnceMainnet and pushGauge not in play
RunIdle ==
    /\ env = <<>>
    /\ run = <<>>
    /\ registry = {}

InitCalc ==
    /\ cpc = "call"
    /\ args \in ArgSet
    /\ ret = NoRet
    /\ MetricsIdle
    /\ RoundIdle
    /\ RunIdle

NextCalc == computeNewRgpFromInputs

SpecCalc == InitCalc /\ [][NextCalc]_vars

(***************************************************************************)
(* metrics.js: raw values and their conversions                            *)
(*                                                                         *)
(* A raw JSON field is null or a text (a JSON number is carried as its     *)
(* decimal text, which is what String(v) makes of it); a text is a         *)
(* sequence of characters.                                                 *)
(***************************************************************************)
RawNull == [isNull |-> TRUE, s |-> <<>>]
Str(chars) == [isNull |-> FALSE, s |-> chars]

DigitChars == <<"0", "1", "2", "3", "4", "5", "6", "7", "8", "9">>
IsDigit(c) == \E i \in 1..10 : DigitChars[i] = c
DigitVal(c) == (CHOOSE i \in 1..10 : DigitChars[i] = c) - 1
AllDigits(cs) == \A i \in 1..Len(cs) : IsDigit(cs[i])

\* value of a sequence of digits
RECURSIVE DigitsVal(_)
DigitsVal(cs) ==
    IF cs = <<>> THEN 0
    ELSE 10 * DigitsVal(SubSeq(cs, 1, Len(cs) - 1)) + DigitVal(cs[Len(cs)])

RECURSIVE Pow10(_)
Pow10(k) == IF k = 0 THEN 1 ELSE 10 * Pow10(k - 1)

\* decimal text of an integer, as String(i) writes it
RECURSIVE NatToStr(_)
NatToStr(i) == IF i < 10 THEN <<DigitChars[i + 1]>>
               ELSE NatToStr(i \div 10) \o <<DigitChars[(i % 10) + 1]>>
IntToStr(i) == IF i < 0 THEN <<"-">> \o NatToStr(-i) ELSE NatToStr(i)

\* BigInt(text): [ok, v]; the empty text is 0n, an optional sign is followed
\* by decimal digits only, anything else is a SyntaxError (the texts tried
\* carry no white space and no radix prefix)
StringToBigInt(cs) ==
    IF cs = <<>> THEN [ok |-> TRUE, v |-> 0]
    ELSE IF AllDigits(cs) THEN [ok |-> TRUE, v |-> DigitsVal(cs)]
    ELSE IF cs[1] \in {"-", "+"} /\ Len(cs) > 1 /\ AllDigits(Tail(cs))
    THEN [ok |-> TRUE, v |-> IF cs[1] = "-" THEN -DigitsVal(Tail(cs)) ELSE DigitsVal(Tail(cs))]
    ELSE [ok |-> FALSE, v |-> 0]

\* position of the first "." of a text, 0 when there is none
DotPos(cs) == IF \E i \in 1..Len(cs) : cs[i] = "."
              THEN CHOOSE i \in 1..Len(cs) : cs[i] = "." /\ \A j \in 1..(i - 1) : cs[j] # "."
              ELSE 0

\* Number(text) of an unsigned decimal literal: digits, optionally with a
\* fraction; NaN for anything else (the texts tried carry no exponent)
UnsignedToNumber(cs) ==
    LET dp == DotPos(cs)
        ip == IF dp = 0 THEN cs ELSE SubSeq(cs, 1, dp - 1)
        fp == IF dp = 0 THEN <<>> ELSE SubSeq(cs, dp + 1, Len(cs))
    IN  IF ~AllDigits(ip) \/ ~AllDigits(fp) \/ (ip = <<>> /\ fp = <<>>) THEN NaN
        ELSE Num(DigitsVal(ip) * Pow10(Len(fp)) + DigitsVal(fp), Pow10(Len(fp)))

\* Number(raw): null -> 0, "" -> 0, a decimal literal -> its value, else NaN
ToNumber(raw) ==
    IF raw.isNull \/ raw.s = <<>> THEN Int2Num(0)
    ELSE IF raw.s[1] = "-" THEN Neg(UnsignedToNumber(Tail(raw.s)))
    ELSE IF raw.s[1] = "+" THEN UnsignedToNumber(Tail(raw.s))
    ELSE UnsignedToNumber(raw.s)

\* [ok, v]: ok = FALSE stands for null
toBigIntOrNull(raw) ==
    IF raw.isNull THEN [ok |-> FALSE, v |-> 0]
    ELSE StringToBigInt(raw.s)

\* BigInt division: the quotient is truncated toward zero
BigIntDiv(a, b) ==
    LET q == Abs(a) \div Abs(b)
    IN  IF (a < 0) # (b < 0) THEN -q ELSE q

\* (n * scale) / d in BigInt arithmetic, n >= 0, d > 0; a common power of ten
\* of scale and d is cancelled first
ScaledQuotient(n, scale, d) ==
    IF d % scale = 0 THEN n \div (d \div scale)
    ELSE IF scale % d = 0 THEN n * (scale \div d)
    ELSE (n * scale) \div d

\* the decimal text <sign><int>.<frac> is carried as its sign and its digits
\* q = int * 10^decimals + frac
divBigIntToDecimalString(numer, denom, decimals) ==
    IF denom = 0 THEN [nan |-> TRUE, neg |-> FALSE, q |-> 0, decimals |-> decimals]
    ELSE [ nan |-> FALSE,
           neg |-> (numer < 0) # (denom < 0),
           q |-> ScaledQuotient(Abs(numer), Pow10(decimals), Abs(denom)),
           decimals |-> decimals ]

\* Number(text) of such a decimal text
DecimalStringToNumber(d) ==
    IF d.nan THEN NaN
    ELSE Num(IF d.neg THEN -d.q ELSE d.q, Pow10(d.decimals))

NA == [nan |-> TRUE, neg |-> FALSE, q |-> 0, decimals |-> 2]

\* numer and denom are [ok, v] (ok = FALSE: null); 'N/A' is carried as NA
percentFromBigInt(numer, denom, decimals) ==
    IF ~denom.ok \/ denom.v = 0 \/ ~numer.ok THEN NA
    ELSE divBigIntToDecimalString(numer.v * 100, denom.v, decimals)

\* timestamps: 0 absent, -1 a text that is no date, d > 0 an instant of UTC day d;
\* dates: 0 is null
isoDateOnly(ts) == IF ts <= 0 THEN 0 ELSE ts

(***************************************************************************)
(* extractEpoch                                                            *)
(***************************************************************************)
NullMetric ==
    [ isNull |-> TRUE, epochId |-> Null, startDate |-> 0, endDate |-> 0,
      txCount |-> NaN, totalGasFee |-> 0, comp |-> 0, avgTotalPerTx |-> 0,
      avgCompPerTx |-> 0, compSharePct |-> NA, gasOverRewardsPct |-> NA ]

\* the outcome of extractEpoch(n): [threw, m]; m is NullMetric for a skip
extractEpoch(n) ==
    IF n.checkpoints \in {"missing", "empty"} THEN [threw |-> FALSE, m |-> NullMetric]
    ELSE IF n.checkpoints = "nosummary" THEN [threw |-> FALSE, m |-> NullMetric]
    ELSE
    LET comp == toBigIntOrNull(n.computationCost)
        stor == toBigIntOrNull(n.storageCost)
        rebate == toBigIntOrNull(n.storageRebate)
        txCount == ToNumber(n.totalTransactions)
        stakeRewards == toBigIntOrNull(n.totalStakeRewards)
    IN  IF ~comp.ok \/ ~stor.ok \/ ~rebate.ok
           \/ ~IsFinite(txCount) \/ Le(txCount, Int2Num(0))
        THEN [threw |-> FALSE, m |-> NullMetric]
        ELSE IF ~IsInteger(txCount)
        THEN [threw |-> TRUE, m |-> NullMetric]     \* BigInt(txCount): RangeError
        ELSE
        LET totalGasFee == comp.v + stor.v - rebate.v
            avgTotalPerTx == BigIntDiv(totalGasFee, txCount[2])
            avgCompPerTx == BigIntDiv(comp.v, txCount[2])
        IN  [ threw |-> FALSE,
              m |-> [ isNull |-> FALSE,
                      epochId |-> n.epochId,
                      startDate |-> isoDateOnly(n.startTimestamp),
                      endDate |-> isoDateOnly(n.endTimestamp),
                      txCount |-> txCount,
                      totalGasFee |-> totalGasFee,
                      comp |-> comp.v,
                      avgTotalPerTx |-> avgTotalPerTx,
                      avgCompPerTx |-> avgCompPerTx,
                      compSharePct |->
                          IF totalGasFee > 0
                          THEN percentFromBigInt(comp, [ok |-> TRUE, v |-> totalGasFee], 2)
                          ELSE NA,
                      gasOverRewardsPct |->
                          IF stakeRewards.ok /\ stakeRewards.v # 0 /\ stakeRewards.v > 0
                          THEN percentFromBigInt([ok |-> TRUE, v |-> totalGasFee], stakeRewards, 2)
                          ELSE NA ] ]

(***************************************************************************)
(* Raw epoch records                                                       *)
(***************************************************************************)
CostValues == {-5, 0, 3, MaxCost}
CostRawSet == { RawNull, Str(<<>>), Str(<<"x">>), Str(<<"1", ".", "5">>) }
              \cup { Str(IntToStr(i)) : i \in CostValues }
TxRawSet == { RawNull, Str(<<"x">>), Str(<<"1", ".", "5">>), Str(<<"-", "2">>) }
            \cup { Str(IntToStr(i)) : i \in 0..MaxTx }
StakeRawSet == { RawNull, Str(<<"4", "0">>) }

RawNode(ck, tx, c, st, rb, sr, ts0, ts1) ==
    [ epochId |-> Int2Num(7), referenceGasPrice |-> Str(<<"5", "0", "0">>),
      checkpoints |-> ck, totalTransactions |-> tx,
      computationCost |-> c, storageCost |-> st, storageRebate |-> rb,
      totalStakeRewards |-> sr, startTimestamp |-> ts0, endTimestamp |-> ts1 ]

\* the records extractEpoch is tried on
NodeSet ==
    { RawNode(ck, Str(<<"2">>), Str(<<"3">>), Str(<<"8">>), Str(<<"0">>), RawNull, 1, 2) :
        ck \in {"missing", "empty", "nosummary"} }
    \cup
    { RawNode("ok", tx, c, st, rb, sr, 1, 2) :
        tx \in TxRawSet, c \in CostRawSet, st \in CostRawSet, rb \in CostRawSet,
        sr \in StakeRawSet }

ExtractEpoch ==
    /\ mpc = "idle"
    /\ \E n \in NodeSet :
          /\ node' = n
          /\ metric' = extractEpoch(n).m
          /\ mpc' = IF extractEpoch(n).threw THEN "extractThrew" ELSE "extracted"
    /\ UNCHANGED <<nodes, payload, calcVars, roundVars, runVars>>

(***************************************************************************)
(* attachPrice, summarize, getLatestEpochRGP, collectMetrics               *)
(***************************************************************************)
MIST_PER_SUI == 1000000000

\* the text 'N/A' where a number is expected
NAText == <<"na", 0, 1>>
\* typeof x === 'number'
IsNumberType(x) == x[1] \in {"num", "nan"}

mistToSuiNumber(mist) == DecimalStringToNumber(divBigIntToDecimalString(mist, MIST_PER_SUI, 9))

\* sum of the finite numbers of a sequence and their count
RECURSIVE FiniteSum(_)
FiniteSum(xs) ==
    IF xs = <<>> THEN Int2Num(0)
    ELSE IF IsFinite(Head(xs)) THEN Add(Head(xs), FiniteSum(Tail(xs)))
    ELSE FiniteSum(Tail(xs))
RECURSIVE FiniteCount(_)
FiniteCount(xs) ==
    IF xs = <<>> THEN 0
    ELSE (IF IsFinite(Head(xs)) THEN 1 ELSE 0) + FiniteCount(Tail(xs))

averageNumbers(nums) ==
    IF FiniteCount(nums) = 0 THEN NaN
    ELSE Div(FiniteSum(nums), Int2Num(FiniteCount(nums)))

RECURSIVE SumInt(_)
SumInt(xs) == IF xs = <<>> THEN 0 ELSE Head(xs) + SumInt(Tail(xs))

Days == 1..2

\* priceMap[date]; a date that is no key gives undefined
priceAt(priceMap, date) == IF date \in DOMAIN priceMap THEN priceMap[date] ELSE Undefined

\* (date && priceMap[date]): null date is falsy and is the result
dateAndPrice(priceMap, date) == IF date = 0 THEN Null ELSE priceAt(priceMap, date)

\* variant: the start date is looked up before the end date
priceForStartFirst(r, priceMap) ==
    LET e == dateAndPrice(priceMap, r.startDate)
        st == dateAndPrice(priceMap, r.endDate)
    IN  IF ~IsNullish(e) THEN e ELSE IF ~IsNullish(st) THEN st ELSE Null

\* (endDate && priceMap[endDate]) ?? (startDate && priceMap[startDate]) ?? null
priceFor(r, priceMap) ==
    LET e == dateAndPrice(priceMap, r.endDate)
        st == dateAndPrice(priceMap, r.startDate)
    IN  IF ~IsNullish(e) THEN e ELSE IF ~IsNullish(st) THEN st ELSE Null

\* one row of attachPrice
attachPriceRow(r, priceMap) ==
    LET p == priceFor(r, priceMap)
        priceNum == IF p = Null THEN Null ELSE ToNum(p)
    IN  [ m |-> r,
          price_usd |-> IF priceNum = Null THEN NAText ELSE priceNum,
          avgTotalPerTx_USD |-> IF IsNumberType(priceNum)
                                THEN Mul(mistToSuiNumber(r.avgTotalPerTx), priceNum) ELSE NAText,
          avgCompPerTx_USD |-> IF IsNumberType(priceNum)
                               THEN Mul(mistToSuiNumber(r.avgCompPerTx), priceNum) ELSE NAText ]

attachPrice(rows, priceMap) == [i \in 1..Len(rows) |-> attachPriceRow(rows[i], priceMap)]

pctToNum(pct) == IF pct.nan THEN NaN ELSE DecimalStringToNumber(pct)

\* variant: an overall of zeros that is not null
ZeroOverall ==
    [ isNull |-> FALSE, epochsIncluded |-> 0, avgTotalTransactions |-> Int2Num(0),
      avgTotalGasPerEpoch |-> 0, avgCompPerEpoch |-> 0,
      avgTotalPerTxSimple |-> 0, avgCompPerTxSimple |-> 0,
      num |-> [ avgPriceUSD |-> NaN, avgTotalCostPerTx_SUI |-> Int2Num(0),
                avgComputationCostPerTx_SUI |-> Int2Num(0), avgTotalCostPerTx_USD |-> NaN,
                avgComputationCostPerTx_USD |-> NaN, avgCompShare |-> NaN,
                avgTotalGasOverRewards |-> NaN ] ]

NullOverall ==
    [ isNull |-> TRUE, epochsIncluded |-> 0, avgTotalTransactions |-> NaN,
      avgTotalGasPerEpoch |-> 0, avgCompPerEpoch |-> 0,
      avgTotalPerTxSimple |-> 0, avgCompPerTxSimple |-> 0,
      num |-> [ avgPriceUSD |-> NaN, avgTotalCostPerTx_SUI |-> NaN,
                avgComputationCostPerTx_SUI |-> NaN, avgTotalCostPerTx_USD |-> NaN,
                avgComputationCostPerTx_USD |-> NaN, avgCompShare |-> NaN,
                avgTotalGasOverRewards |-> NaN ] ]

\* the `overall` of summarize(rows); rows are rows of attachPrice, none of
\* them null. Of the formatted copies of the means only the numbers they are
\* made from are kept (num is _num).
summarize(rows) ==
    IF Len(rows) = 0 THEN NullOverall
    ELSE
    LET n == Len(rows)
        field(f(_)) == [i \in 1..n |-> f(rows[i])]
        tx(x) == x.m.txCount
        total(x) == x.m.totalGasFee
        comp(x) == x.m.comp
        perTx(x) == x.m.avgTotalPerTx
        compPerTx(x) == x.m.avgCompPerTx
        share(x) == pctToNum(x.m.compSharePct)
        rewards(x) == pctToNum(x.m.gasOverRewardsPct)
        price(x) == IF IsNumberType(x.price_usd) THEN x.price_usd ELSE NaN
        totalUsd(x) == IF IsNumberType(x.price_usd)
                       THEN Mul(mistToSuiNumber(x.m.avgTotalPerTx), x.price_usd) ELSE NaN
        compUsd(x) == IF IsNumberType(x.price_usd)
                      THEN Mul(mistToSuiNumber(x.m.avgCompPerTx), x.price_usd) ELSE NaN
        avgTotalPerTxSimple == BigIntDiv(SumInt(field(perTx)), n)
        avgCompPerTxSimple == BigIntDiv(SumInt(field(compPerTx)), n)
        avgCompSharePct == averageNumbers(field(share))
        avgGasOverRewardsPct == averageNumbers(field(rewards))
    IN  [ isNull |-> FALSE,
          epochsIncluded |-> n,
          avgTotalTransactions |-> MathRound(Div(FiniteSum(field(tx)), Int2Num(n))),
          avgTotalGasPerEpoch |-> BigIntDiv(SumInt(field(total)), n),
          avgCompPerEpoch |-> BigIntDiv(SumInt(field(comp)), n),
          avgTotalPerTxSimple |-> avgTotalPerTxSimple,
          avgCompPerTxSimple |-> avgCompPerTxSimple,
          num |-> [ avgPriceUSD |-> averageNumbers(field(price)),
                    avgTotalCostPerTx_SUI |-> mistToSuiNumber(avgTotalPerTxSimple),
                    avgComputationCostPerTx_SUI |-> mistToSuiNumber(avgCompPerTxSimple),
                    avgTotalCostPerTx_USD |-> averageNumbers(field(totalUsd)),
                    avgComputationCostPerTx_USD |-> averageNumbers(field(compUsd)),
                    avgCompShare |-> IF IsFinite(avgCompSharePct)
                                     THEN Div(avgCompSharePct, Int2Num(100)) ELSE NaN,
                    avgTotalGasOverRewards |-> IF IsFinite(avgGasOverRewardsPct)
                                               THEN Div(avgGasOverRewardsPct, Int2Num(100))
                                               ELSE NaN ] ]

\* index of the node getLatestEpochRGP settles on among the first k, 0 for none
RECURSIVE latestIndex(_, _)
latestIndex(ns, k) ==
    IF k = 0 THEN 0
    ELSE LET prev == latestIndex(ns, k - 1)
             n == ns[k]
         IN  IF IsNullish(n.epochId) \/ n.referenceGasPrice.isNull THEN prev
             ELSE IF prev = 0 \/ Gt(n.epochId, ns[prev].epochId) THEN k
             ELSE prev

getLatestEpochRGP(ns) ==
    LET i == latestIndex(ns, Len(ns))
    IN  IF i = 0 THEN [epochId |-> Null, referenceGasPrice |-> Null]
        ELSE LET rgpNum == ToNumber(ns[i].referenceGasPrice)
             IN  [ epochId |-> ToNum(ns[i].epochId),
                   referenceGasPrice |-> IF IsFinite(rgpNum) THEN rgpNum ELSE Null ]

\* results.filter(Boolean): the metrics that are not null, in order
RECURSIVE filterBoolean(_)
filterBoolean(xs) ==
    IF xs = <<>> THEN <<>>
    ELSE IF ~Head(xs).isNull THEN <<Head(xs)>> \o filterBoolean(Tail(xs))
    ELSE filterBoolean(Tail(xs))

NoPayload ==
    [ error |-> "", latestEpoch |-> [epochId |-> Null, referenceGasPrice |-> Null],
      rows |-> <<>>, overall |-> NullOverall,
      overallForRgp |-> [ avgTotalCostPerTx_USD |-> Undefined,
                          avgComputationCostPerTx_USD |-> Undefined,
                          avgCompShare |-> Undefined,
                          lastEpochReferenceGasPrice |-> Undefined ] ]

\* the outcome of collectMetrics for the response in: [threw, p]; the rows
\* of the payload are the rows of attachPrice the display table is made from
collectMetricsOutcome(in) ==
    IF in.resp = "failed"
    THEN [threw |-> TRUE, p |-> [NoPayload EXCEPT !.error = "GraphQL request failed"]]
    ELSE IF in.resp = "malformed"
    THEN [threw |-> TRUE, p |-> [NoPayload EXCEPT !.error = "response missing epochs.nodes array"]]
    ELSE IF \E i \in 1..Len(in.list) : extractEpoch(in.list[i]).threw
    THEN [threw |-> TRUE, p |-> [NoPayload EXCEPT !.error = "RangeError"]]
    ELSE
    LET results == [i \in 1..Len(in.list) |-> extractEpoch(in.list[i]).m]
        extracted == filterBoolean(results)
    IN  IF Len(extracted) = 0
        THEN [threw |-> TRUE, p |-> [NoPayload EXCEPT !.error = "no usable epochs"]]
        ELSE
        LET withPrice == attachPrice(extracted, in.priceMap)
            overall == summarize(withPrice)
            latest == getLatestEpochRGP(in.list)
        IN  [ threw |-> FALSE,
              p |-> [ error |-> "",
                      latestEpoch |-> latest,
                      rows |-> withPrice,
                      overall |-> overall,
                      overallForRgp |->
                          [ avgTotalCostPerTx_USD |-> overall.num.avgTotalCostPerTx_USD,
                            avgComputationCostPerTx_USD |->
                                overall.num.avgComputationCostPerTx_USD,
                            avgCompShare |-> overall.num.avgCompShare,
                            lastEpochReferenceGasPrice |-> latest.referenceGasPrice ] ] ]

(***************************************************************************)
(* Responses collectMetrics is tried on                                    *)
(***************************************************************************)
GoodCosts(tx, c, st, rb, ts0, ts1) ==
    RawNode("ok", tx, Str(IntToStr(c)), Str(IntToStr(st)), Str(IntToStr(rb)), RawNull, ts0, ts1)

CollectNodeSet ==
    { GoodCosts(Str(IntToStr(MaxTx)), 3, MaxCost, 0, 1, 2),      \* usable
      GoodCosts(Str(<<"1">>), 3, 0, MaxCost, 2, 0),              \* usable, rebate > costs
      GoodCosts(Str(<<"1">>), MaxCost, 0, 3, 1, 2),              \* usable, rebate > storage
      RawNode("missing", Str(<<"2">>), RawNull, RawNull, RawNull, RawNull, 1, 2),
      GoodCosts(Str(<<"0">>), 3, MaxCost, 0, 1, 2),              \* no transactions
      RawNode("ok", Str(<<"2">>), Str(<<"x">>), Str(<<"8">>), Str(<<"0">>), RawNull, 1, 2),
      GoodCosts(Str(<<"1", ".", "5">>), 3, MaxCost, 0, 1, 2) }   \* fractional count

\* prices are in USD per SUI and large, so that a cost of a few MIST is a few
\* thousandths of a USD, the scale of TARGET_AVG_TX_USD
PriceMapSet ==
    { <<>>, <<Int2Num(4000000)>>, <<Int2Num(4000000), Int2Num(2000000)>>,
      <<Undefined, Int2Num(2000000)>> }

ResponseSet ==
    { [resp |-> r, list |-> <<>>, priceMap |-> <<>>] : r \in {"failed", "malformed"} }
    \cup
    { [resp |-> "ok", list |-> l, priceMap |-> pm] :
        l \in UNION { [1..k -> CollectNodeSet] : k \in 0..MaxEpochs },
        pm \in PriceMapSet }

CollectMetrics ==
    /\ mpc = "idle"
    /\ \E in \in ResponseSet :
          /\ nodes' = in
          /\ payload' = collectMetricsOutcome(in).p
          /\ mpc' = IF collectMetricsOutcome(in).threw THEN "collectThrew" ELSE "collected"
    /\ UNCHANGED <<node, metric, calcVars, roundVars, runVars>>

(***************************************************************************)
(* Environment values: what the program makes of process.env               *)
(***************************************************************************)
UpperChars == << "A", "B", "C", "D", "E", "F", "G", "H", "I", "J", "K", "L", "M",
                 "N", "O", "P", "Q", "R", "S", "T", "U", "V", "W", "X", "Y", "Z" >>
LowerChars == << "a", "b", "c", "d", "e", "f", "g", "h", "i", "j", "k", "l", "m",
                 "n", "o", "p", "q", "r", "s", "t", "u", "v", "w", "x", "y", "z" >>

\* String.prototype.toLowerCase
toLowerCase(cs) ==
    [i \in 1..Len(cs) |->
        IF \E k \in 1..26 : UpperChars[k] = cs[i]
        THEN LowerChars[CHOOSE k \in 1..26 : UpperChars[k] = cs[i]]
        ELSE cs[i]]

\* String.prototype.trim (blanks are the only white space tried)
RECURSIVE trim(_)
trim(cs) ==
    IF cs = <<>> THEN cs
    ELSE IF Head(cs) = " " THEN trim(Tail(cs))
    ELSE IF cs[Len(cs)] = " " THEN trim(SubSeq(cs, 1, Len(cs) - 1))
    ELSE cs

\* (process.env[name] || ''): unset reads as the empty text
envOrEmpty(raw) == IF raw.isNull THEN <<>> ELSE raw.s

TrueTexts == { <<"1">>, <<"t", "r", "u", "e">>, <<"y", "e", "s">>, <<"o", "n">> }
FalseTexts == { <<"0">>, <<"f", "a", "l", "s", "e">>, <<"n", "o">>, <<"o", "f", "f">> }

parseBoolEnv(raw, def) ==
    LET v == trim(toLowerCase(envOrEmpty(raw)))
    IN  IF v \in TrueTexts THEN TRUE
        ELSE IF v \in FalseTexts THEN FALSE
        ELSE def

parseNumberEnv(raw, def) ==
    IF raw.isNull THEN def
    ELSE IF IsFinite(ToNumber(raw)) THEN ToNumber(raw) ELSE def

\* position of the first comma of a text, 0 for none
CommaPos(cs) == IF \E i \in 1..Len(cs) : cs[i] = ","
                THEN CHOOSE i \in 1..Len(cs) : cs[i] = "," /\ \A j \in 1..(i - 1) : cs[j] # ","
                ELSE 0

\* the pieces of a text between its commas
RECURSIVE SplitCommas(_)
SplitCommas(cs) ==
    IF CommaPos(cs) = 0 THEN <<cs>>
    ELSE <<SubSeq(cs, 1, CommaPos(cs) - 1)>> \o SplitCommas(SubSeq(cs, CommaPos(cs) + 1, Len(cs)))

\* a JSON number literal: [ok, v]
JsonNumber(cs) ==
    LET neg == cs # <<>> /\ cs[1] = "-"
        body == IF neg THEN Tail(cs) ELSE cs
        dp == DotPos(body)
        ip == IF dp = 0 THEN body ELSE SubSeq(body, 1, dp - 1)
        fp == IF dp = 0 THEN <<>> ELSE SubSeq(body, dp + 1, Len(body))
        ok == /\ ip # <<>> /\ AllDigits(ip)
              /\ (Len(ip) = 1 \/ ip[1] # "0")
              /\ (dp = 0 \/ (fp # <<>> /\ AllDigits(fp)))
    IN  [ ok |-> ok,
          v |-> IF ~ok THEN NaN
                ELSE IF neg THEN Neg(UnsignedToNumber(body)) ELSE UnsignedToNumber(body) ]

\* one element of a JSON array and Number() of it: a number literal, null
\* (Number(null) is 0) or a string without escapes (Number of its text)
JsonElement(cs) ==
    IF JsonNumber(cs).ok THEN JsonNumber(cs)
    ELSE IF cs = <<"n", "u", "l", "l">> THEN [ok |-> TRUE, v |-> Int2Num(0)]
    ELSE IF /\ Len(cs) >= 2 /\ cs[1] = "\"" /\ cs[Len(cs)] = "\""
            /\ \A i \in 2..(Len(cs) - 1) : cs[i] # "\""
    THEN [ok |-> TRUE, v |-> ToNumber(Str(SubSeq(cs, 2, Len(cs) - 1)))]
    ELSE [ok |-> FALSE, v |-> NaN]

\* JSON.parse of a text: [ok, isArray, elems]; ok = FALSE is a SyntaxError,
\* elems are the elements after Number(). The texts tried are numbers and
\* flat arrays without white space.
JsonParse(cs) ==
    IF JsonElement(cs).ok THEN [ok |-> TRUE, isArray |-> FALSE, elems |-> <<>>]
    ELSE IF Len(cs) >= 2 /\ cs[1] = "[" /\ cs[Len(cs)] = "]"
    THEN LET inner == SubSeq(cs, 2, Len(cs) - 1)
             parts == SplitCommas(inner)
         IN  IF inner = <<>> THEN [ok |-> TRUE, isArray |-> TRUE, elems |-> <<>>]
             ELSE IF \A i \in 1..Len(parts) : JsonElement(parts[i]).ok
             THEN [ ok |-> TRUE, isArray |-> TRUE,
                    elems |-> [i \in 1..Len(parts) |-> JsonElement(parts[i]).v] ]
             ELSE [ok |-> FALSE, isArray |-> FALSE, elems |-> <<>>]
    ELSE [ok |-> FALSE, isArray |-> FALSE, elems |-> <<>>]

\* the pair of numbers of RGP_GUARD_RAILS, def when it is not usable
parseGuardRailsEnv(raw, def) ==
    IF raw.isNull \/ raw.s = <<>> THEN def
    ELSE LET arr == JsonParse(raw.s)
         IN  IF ~arr.ok \/ ~arr.isArray \/ Len(arr.elems) # 2 THEN def
             ELSE IF ~IsFinite(arr.elems[1]) \/ ~IsFinite(arr.elems[2]) THEN def
             ELSE <<arr.elems[1], arr.elems[2]>>

\* variant: the fall-back is floored at 0 like a parsed range
parseJitterRangeEnvClean(raw, def) ==
    LET clean == << IF def[1] < 0 THEN 0 ELSE def[1], IF def[2] < 0 THEN 0 ELSE def[2] >>
    IN  IF raw.isNull \/ raw.s = <<>> THEN clean
        ELSE LET arr == JsonParse(raw.s)
             IN  IF ~arr.ok \/ ~arr.isArray \/ Len(arr.elems) # 2 THEN clean
                 ELSE LET a == MathMax(Int2Num(0), MathFloor(arr.elems[1]))
                          b == MathMax(Int2Num(0), MathFloor(arr.elems[2]))
                      IN  IF ~IsFinite(a) \/ ~IsFinite(b) THEN clean
                          ELSE <<ToInt(a), ToInt(b)>>

\* the pair of magnitudes of RGP_JITTER_RANGE, def when it is not usable;
\* def and the result are pairs of integers
parseJitterRangeEnv(raw, def) ==
    IF raw.isNull \/ raw.s = <<>> THEN def
    ELSE LET arr == JsonParse(raw.s)
         IN  IF ~arr.ok \/ ~arr.isArray \/ Len(arr.elems) # 2 THEN def
             ELSE LET a == MathMax(Int2Num(0), MathFloor(arr.elems[1]))
                      b == MathMax(Int2Num(0), MathFloor(arr.elems[2]))
                  IN  IF ~IsFinite(a) \/ ~IsFinite(b) THEN def
                      ELSE <<ToInt(a), ToInt(b)>>

\* main.js: bool(name, def) and req(name) throwing
bool(raw, def) ==
    LET v == trim(toLowerCase(envOrEmpty(raw)))
    IN  IF v \in TrueTexts THEN TRUE
        ELSE IF v \in FalseTexts THEN FALSE
        ELSE def
reqThrows(raw) == raw.isNull \/ raw.s = <<>> \/ trim(raw.s) = <<>>

(***************************************************************************)
(* computeRgp after collectMetrics has settled                             *)
(***************************************************************************)
DefaultGuardRails == <<Int2Num(-40), Int2Num(40)>>
DefaultJitterRange == <<-10, 10>>

\* the arguments computeRgp hands to computeNewRgpFromInputs
computeRgpArgs(p, e) ==
    LET minRgpMist == parseNumberEnv(e.RGP_MIN_MIST, Undefined)
        maxRgpMist == parseNumberEnv(e.RGP_MAX_MIST, Undefined)
    IN  [ targetAvgTxUsd |-> parseNumberEnv(e.TARGET_AVG_TX_USD, NaN),
          compShare |-> p.overallForRgp.avgCompShare,
          compCostUsd |-> p.overallForRgp.avgComputationCostPerTx_USD,
          currentRgp |-> p.overallForRgp.lastEpochReferenceGasPrice,
          options |->
              [ guardRailsEnabled |-> parseBoolEnv(e.RGP_GUARD_RAILS_ENABLED, TRUE),
                guardRailsPct |->
                    [def |-> TRUE, v |-> parseGuardRailsEnv(e.RGP_GUARD_RAILS, DefaultGuardRails)],
                roundStep |-> parseNumberEnv(e.RGP_ROUND_STEP, Int2Num(1)),
                minRgpMist |-> IF IsFinite(minRgpMist) THEN minRgpMist ELSE Undefined,
                maxRgpMist |-> IF IsFinite(maxRgpMist) THEN maxRgpMist ELSE Undefined,
                jitterRange |->
                    [def |-> TRUE,
                     v |-> parseJitterRangeEnv(e.RGP_JITTER_RANGE, DefaultJitterRange)] ] ]

\* the call of computeNewRgpFromInputs with the arguments a
CallCalculator(a) ==
    /\ args' = a
    /\ IF validationError(a) # ""
       THEN /\ cpc' = "threw"
            /\ ret' = [NoRet EXCEPT !.error = validationError(a)]
       ELSE /\ cpc' = "returned"
            /\ \E drawn \in jitterChoices(a) : ret' = resultOf(a, drawn)

\* computeRgp from the point where the awaited collectMetrics settles: a
\* rejection is passed on, a payload is turned into a call of the calculator
ComputeRgp ==
    /\ mpc \in {"collected", "collectThrew"}
    /\ cpc = "idle"
    /\ IF mpc = "collectThrew"
       THEN /\ cpc' = "threw"
            /\ ret' = [NoRet EXCEPT !.error = payload.error]
            /\ args' = args
       ELSE CallCalculator(computeRgpArgs(payload, env))
    /\ UNCHANGED <<metricVars, roundVars, runVars>>

\* an environment with no variable set
NoEnv ==
    [ TARGET_AVG_TX_USD |-> RawNull, RGP_GUARD_RAILS_ENABLED |-> RawNull,
      RGP_GUARD_RAILS |-> RawNull, RGP_ROUND_STEP |-> RawNull, RGP_MIN_MIST |-> RawNull,
      RGP_MAX_MIST |-> RawNull, RGP_JITTER_RANGE |-> RawNull, DRY_RUN |-> RawNull,
      UPDATE_ONCHAIN |-> RawNull, MAINNET_RPC_URL |-> RawNull,
      MAINNET_OPERATION_PRIVATE_KEY |-> RawNull, MAINNET_OPERATION_CAP_ID |-> RawNull,
      MAINNET_GAS_BUDGET |-> RawNull ]

\* TARGET_AVG_TX_USD=0.004 and nothing else
PlainEnv == [NoEnv EXCEPT !.TARGET_AVG_TX_USD = Str(<<"0", ".", "0", "0", "4">>)]

\* rows summarize is tried on directly: rows of attachPrice for the usable
\* records, none at all included
SummarizeRowSet ==
    { attachPriceRow(extractEpoch(n).m, pm) :
        n \in { x \in CollectNodeSet : ~extractEpoch(x).threw /\ ~extractEpoch(x).m.isNull },
        pm \in { <<>>, <<Int2Num(4000000), Int2Num(2000000)>> } }

\* summarize(rows)
Summarize ==
    /\ mpc = "idle"
    /\ \E rows \in UNION { [1..k -> SummarizeRowSet] : k \in 0..MaxEpochs } :
          /\ nodes' = [resp |-> "rows", list |-> <<>>, priceMap |-> <<>>]
          /\ payload' = [NoPayload EXCEPT !.rows = rows, !.overall = summarize(rows)]
          /\ mpc' = "summarized"
    /\ UNCHANGED <<node, metric, calcVars, roundVars, runVars>>

\* the calculator not called yet
IdleArgs ==
    [ targetAvgTxUsd |-> Undefined, compShare |-> Undefined,
      compCostUsd |-> Undefined, currentRgp |-> Undefined, options |-> PlainOptions ]

CalcIdle ==
    /\ cpc = "idle"
    /\ args = IdleArgs
    /\ ret = NoRet

InitMetrics ==
    /\ MetricsIdle
    /\ CalcIdle
    /\ RoundIdle
    /\ env = PlainEnv
    /\ run = <<>>
    /\ registry = {}

InitRound ==
    /\ \E x \in RoundValueSet, st \in RoundStepSet :
          rnd = [pc |-> "call", x |-> x, step |-> st, once |-> NaN, twice |-> NaN]
    /\ MetricsIdle
    /\ CalcIdle
    /\ RunIdle

NextRound == RoundOnce \/ RoundTwice

SpecRound == InitRound /\ [][NextRound]_vars

NextMetrics == ExtractEpoch \/ Summarize \/ CollectMetrics \/ ComputeRgp

SpecMetrics == InitMetrics /\ [][NextMetrics]_vars

(***************************************************************************)
(* pushgateway.js (the version on the global registry) and main.js         *)
(***************************************************************************)
GaugeProposed == "sui_reference_gas_price_proposed_mist"
GaugeCurrent == "sui_reference_gas_price_current_mist"

\* pushGauge on the registry reg: [threw, error, registry]. new client.Gauge
\* registers the gauge and throws when the name is registered already; the
\* registry is cleared only after a successful push.
pushGauge(reg, name, value, gatewayOk) ==
    IF name \in reg
    THEN [threw |-> TRUE, error |-> "already registered", registry |-> reg]
    ELSE IF ~IsFinite(ToNum(value))
    THEN [threw |-> TRUE, error |-> "Invalid value", registry |-> reg \cup {name}]
    ELSE IF ~gatewayOk
    THEN [threw |-> TRUE, error |-> "push failed", registry |-> reg \cup {name}]
    ELSE [threw |-> FALSE, error |-> "", registry |-> {}]

\* variant: DRY_RUN is not looked at
onchainDecisionNoDryRun(e) ==
    IF ~bool(e.UPDATE_ONCHAIN, FALSE) THEN "proposedOnly"
    ELSE IF \/ reqThrows(e.MAINNET_RPC_URL) \/ reqThrows(e.MAINNET_OPERATION_PRIVATE_KEY)
            \/ reqThrows(e.MAINNET_OPERATION_CAP_ID) \/ reqThrows(e.MAINNET_GAS_BUDGET)
    THEN "missingEnv"
    ELSE "submit"

\* what runOnceMainnet does after the pushes
onchainDecision(e) ==
    IF bool(e.DRY_RUN, FALSE) THEN "dryRun"
    ELSE IF ~bool(e.UPDATE_ONCHAIN, FALSE) THEN "proposedOnly"
    ELSE IF \/ reqThrows(e.MAINNET_RPC_URL) \/ reqThrows(e.MAINNET_OPERATION_PRIVATE_KEY)
            \/ reqThrows(e.MAINNET_OPERATION_CAP_ID) \/ reqThrows(e.MAINNET_GAS_BUDGET)
    THEN "missingEnv"
    ELSE "submit"

\* run number n about to start
FreshRun(n) == [pc |-> "start", n |-> n, pushes |-> <<>>, onchain |-> <<>>, outcome |-> ""]

\* responses the runs meet: a failed request, one usable record, a record
\* with a share above 1, no usable record, two records with one price
RunResponseSet ==
    { [resp |-> "failed", list |-> <<>>, priceMap |-> <<>>],
      [resp |-> "ok", list |-> <<GoodCosts(Str(IntToStr(MaxTx)), 3, MaxCost, 0, 1, 2)>>,
       priceMap |-> <<Int2Num(4000000), Int2Num(2000000)>>],
      [resp |-> "ok", list |-> <<GoodCosts(Str(<<"1">>), MaxCost, 0, 3, 1, 2)>>,
       priceMap |-> <<Int2Num(4000000), Int2Num(2000000)>>],
      [resp |-> "ok", list |-> <<GoodCosts(Str(<<"0">>), 3, MaxCost, 0, 1, 2)>>,
       priceMap |-> <<Int2Num(4000000), Int2Num(2000000)>>],
      [resp |-> "ok", list |-> << GoodCosts(Str(IntToStr(MaxTx)), 3, MaxCost, 0, 1, 2),
                                  GoodCosts(Str(<<"1">>), 3, 0, MaxCost, 2, 0) >>,
       priceMap |-> <<Int2Num(4000000)>>] }

\* collectMetrics as awaited by computeRgp in a run
RunCollectMetrics ==
    /\ run.pc = "start"
    /\ mpc = "idle"
    /\ \E in \in RunResponseSet :
          /\ nodes' = in
          /\ payload' = collectMetricsOutcome(in).p
          /\ mpc' = IF collectMetricsOutcome(in).threw THEN "collectThrew" ELSE "collected"
    /\ UNCHANGED <<node, metric, calcVars, roundVars, runVars>>

\* runOnceMainnet resumes after computeRgp: a rejection or an invalid
\* proposal ends the run with an error
CheckProposal ==
    /\ run.pc = "start"
    /\ cpc \in {"threw", "returned"}
    /\ run' = [run EXCEPT !.pc =
                  IF \/ cpc = "threw"
                     \/ ~IsFinite(ret.proposedRgpMist)
                     \/ Le(ret.proposedRgpMist, Int2Num(0))
                  THEN "failed" ELSE "pushProposed"]
    /\ UNCHANGED <<calcVars, metricVars, roundVars, env, registry>>

\* the first pushGauge of the try block; a throw skips the second
PushProposed ==
    /\ run.pc = "pushProposed"
    /\ \E gatewayOk \in BOOLEAN :
          LET o == pushGauge(registry, GaugeProposed, ret.proposedRgpMist, gatewayOk)
          IN  /\ registry' = o.registry
              /\ run' = [run EXCEPT
                            !.pushes = Append(@, [ name |-> GaugeProposed, before |-> registry,
                                                   threw |-> o.threw, error |-> o.error ]),
                            !.pc = IF o.threw THEN "decide" ELSE "pushCurrent"]
    /\ UNCHANGED <<calcVars, metricVars, roundVars, env>>

\* the second pushGauge, of result.inputs.currentRgp
PushCurrent ==
    /\ run.pc = "pushCurrent"
    /\ \E gatewayOk \in BOOLEAN :
          LET o == pushGauge(registry, GaugeCurrent, args.currentRgp, gatewayOk)
          IN  /\ registry' = o.registry
              /\ run' = [run EXCEPT
                            !.pushes = Append(@, [ name |-> GaugeCurrent, before |-> registry,
                                                   threw |-> o.threw, error |-> o.error ]),
                            !.pc = "decide"]
    /\ UNCHANGED <<calcVars, metricVars, roundVars, env>>

\* the run after the decision d: updateGasPrice called with the proposal,
\* an error for a missing variable, or the end of the run
DecideOn(d) ==
    IF d = "submit"
    THEN [run EXCEPT !.pc = "submitted", !.onchain = Append(@, ret.proposedRgpMist)]
    ELSE IF d = "missingEnv"
    THEN [run EXCEPT !.pc = "failed"]
    ELSE [run EXCEPT !.pc = "done", !.outcome = d]

\* DRY_RUN, UPDATE_ONCHAIN, the required variables and the call of
\* updateGasPrice with the proposal
Decide ==
    /\ run.pc = "decide"
    /\ run' = DecideOn(onchainDecision(env))
    /\ UNCHANGED <<calcVars, metricVars, roundVars, env, registry>>

\* updateGasPrice settles: true, false (caught error) or undefined
UpdateGasPriceSettles ==
    /\ run.pc = "submitted"
    /\ \E ok \in {"true", "false", "undefined"} :
          run' = [run EXCEPT !.pc = "done",
                             !.outcome = IF ok = "true" THEN "updated" ELSE "notUpdated"]
    /\ UNCHANGED <<calcVars, metricVars, roundVars, env, registry>>

\* the schedule fires again in the same process: the registry is kept
NextRun ==
    /\ run.pc \in {"done", "failed"}
    /\ run.n < MaxRuns
    /\ run' = FreshRun(run.n + 1)
    /\ mpc' = "idle"
    /\ node' = <<>>
    /\ metric' = <<>>
    /\ nodes' = <<>>
    /\ payload' = <<>>
    /\ cpc' = "idle"
    /\ args' = IdleArgs
    /\ ret' = NoRet
    /\ UNCHANGED <<roundVars, env, registry>>

Text1(c) == Str(<<c>>)

\* everything configured for an on-chain update, jitter range [5,5]
BaseEnv ==
    [PlainEnv EXCEPT !.UPDATE_ONCHAIN = Str(<<"y", "e", "s">>),
                     !.RGP_JITTER_RANGE = Str(<<"[", "5", ",", "5", "]">>),
                     !.MAINNET_RPC_URL = Text1("u"),
                     !.MAINNET_OPERATION_PRIVATE_KEY = Text1("k"),
                     !.MAINNET_OPERATION_CAP_ID = Text1("c"),
                     !.MAINNET_GAS_BUDGET = Text1("9")]

\* RGP_JITTER_RANGE: unset, empty, cut short, one element, a word, negative
\* and fractional entries, a proper pair, a number
JitterEnvSet ==
    { RawNull, Str(<<>>),
      Str(<<"[", "5", ",", "5">>),
      Str(<<"[", "5", "]">>),
      Str(<<"[", "\"", "a", "\"", ",", "5", "]">>),
      Str(<<"[", "-", "3", ",", "2", ".", "5", "]">>),
      Str(<<"[", "5", ",", "5", "]">>),
      Str(<<"7">>) }

RunEnvSet ==
    { [BaseEnv EXCEPT !.RGP_JITTER_RANGE = j] : j \in JitterEnvSet }
    \cup
    { [BaseEnv EXCEPT !.DRY_RUN = d, !.UPDATE_ONCHAIN = u,
                      !.MAINNET_RPC_URL = r, !.MAINNET_GAS_BUDGET = g] :
        d \in {RawNull, Str(<<"T", "R", "U", "E">>)},
        u \in {RawNull, Str(<<"y", "e", "s">>), Str(<<"o", "f", "f">>)},
        r \in {RawNull, Text1("u")},
        g \in {Text1(" "), Text1("9")} }
    \cup
    { [BaseEnv EXCEPT !.TARGET_AVG_TX_USD = RawNull],
      [BaseEnv EXCEPT !.RGP_GUARD_RAILS = Str(<<"[", "-", "2", "0", ",", "4", "0", "]">>)],
      [BaseEnv EXCEPT !.RGP_GUARD_RAILS_ENABLED = Str(<<"o", "f", "f">>)],
      [BaseEnv EXCEPT !.RGP_ROUND_STEP = Str(<<"1", "0">>),
                      !.RGP_MIN_MIST = Str(<<"1", "0", "0">>),
                      !.RGP_MAX_MIST = Str(<<"6", "9", "5">>)] }

InitRun ==
    /\ env \in RunEnvSet
    /\ run = FreshRun(1)
    /\ registry = {}
    /\ MetricsIdle
    /\ CalcIdle
    /\ RoundIdle

NextRunOnce ==
    \/ RunCollectMetrics
    \/ ComputeRgp
    \/ CheckProposal
    \/ PushProposed
    \/ PushCurrent
    \/ Decide
    \/ UpdateGasPriceSettles
    \/ NextRun

SpecRun == InitRun /\ [][NextRunOnce]_vars

(***************************************************************************)
(* Properties of the calculator                                            *)
(***************************************************************************)
Returned == cpc = "returned"
RailsOn == Returned /\ args.options.guardRailsEnabled
LowPct == pctOrDefault(args.options.guardRailsPct, 1, DefaultLowPct)
HighPct == pctOrDefault(args.options.guardRailsPct, 2, DefaultHighPct)
\* x lies in the guard-rail band of the returned trace
InBand(x) == Le(ret.calc.clampMin, x) /\ Le(x, ret.calc.clampMax)
AfterJitter == Add(ret.calc.R_clamped, Int2Num(ret.calc.jitter))

\* C1 as stated: with guard rails enabled, whatever lowPct and highPct are
\* (lowPct > highPct included), R_clamped lies in
\* [R_now*(1+low/100), R_now*(1+high/100)].
C1_ClampedInBandAnyPct == RailsOn => InBand(ret.calc.R_clamped)

\* C1 amended: with guard rails enabled and lowPct <= highPct, R_clamped lies
\* in [R_now*(1+low/100), R_now*(1+high/100)].
C1_ClampedInBand == (RailsOn /\ Le(LowPct, HighPct)) => InBand(ret.calc.R_clamped)

C1_Witness ==
    /\ RailsOn /\ Lt(LowPct, HighPct)
    /\ Gt(ret.calc.R_raw, ret.calc.clampMax)
    /\ ret.calc.R_clamped = ret.calc.clampMax

\* C2: whenever a (well-formed) clamp band is configured, R_clamped + drawn
\* stays within [clampMin, clampMax], in each of the three jitter states and
\* for every draw.
C2_JitterStaysInBand == (RailsOn /\ Le(LowPct, HighPct)) => InBand(AfterJitter)

\* C3 as stated: R_final is an integer >= 1 and lies within the configured
\* absolute min and max, whatever they are (max < 1 and min > max included).
C3_FinalWithinAbsAny ==
    Returned =>
        /\ IsInteger(ret.proposedRgpMist)
        /\ Le(Int2Num(1), ret.proposedRgpMist)
        /\ IsFinite(args.options.minRgpMist) => Le(args.options.minRgpMist, ret.proposedRgpMist)
        /\ IsFinite(args.options.maxRgpMist) => Le(ret.proposedRgpMist, args.options.maxRgpMist)

\* C3 amended: R_final is an integer >= 1; an integer absolute max >= 1 is
\* never exceeded; an integer absolute min is respected when no max is
\* configured or min <= max.
C3_FinalWithinAbs ==
    Returned =>
        LET mn == args.options.minRgpMist
            mx == args.options.maxRgpMist
        IN  /\ IsInteger(ret.proposedRgpMist)
            /\ Le(Int2Num(1), ret.proposedRgpMist)
            /\ (IsInteger(mx) /\ Le(Int2Num(1), mx)) => Le(ret.proposedRgpMist, mx)
            /\ (IsInteger(mn) /\ (~IsFinite(mx) \/ Le(mn, mx))) => Le(mn, ret.proposedRgpMist)

C3_Witness ==
    /\ Returned
    /\ args.options.minRgpMist = Int2Num(20)
    /\ args.options.maxRgpMist = Int2Num(705)
    /\ Gt(AfterJitter, Int2Num(705))
    /\ ret.proposedRgpMist = Int2Num(705)

\* the four required inputs are inside their domains
InDomain(a) ==
    /\ a.targetAvgTxUsd[1] = "num" /\ a.targetAvgTxUsd[2] > 0
    /\ a.compShare[1] = "num" /\ a.compShare[2] > 0 /\ a.compShare[2] <= a.compShare[3]
    /\ a.compCostUsd[1] = "num" /\ a.compCostUsd[2] > 0
    /\ a.currentRgp[1] = "num" /\ a.currentRgp[2] > 0

\* C4: the call throws, and yields no proposal, exactly when T <= 0, s is
\* outside (0,1], C <= 0 or R_now <= 0 (or one of them is not a finite
\* number); inside the domains it returns a proposal computed from the
\* inputs as given.
C4_ValidationExact ==
    /\ cpc = "threw" =>
          /\ ~InDomain(args)
          /\ ret.error # ""
          /\ ret.proposedRgpMist = Undefined
    /\ cpc = "returned" =>
          /\ InDomain(args)
          /\ ret.error = ""
          /\ IsFinite(ret.proposedRgpMist)
          /\ ret.calc.R_raw =
                Div(Mul(args.currentRgp, Mul(args.compShare, args.targetAvgTxUsd)),
                    args.compCostUsd)

C4_Witness ==
    /\ cpc = "threw"
    /\ args.compShare = Int2Num(0)
    /\ ret.error = "Invalid avgCompShare (must be in (0,1])"

\* C5: with guard rails enabled the published proposal proposedRgpMist lies
\* in [R_now*(1+low/100), R_now*(1+high/100)].
C5_FinalInBand == (RailsOn /\ Le(LowPct, HighPct)) => InBand(ret.proposedRgpMist)

\* the rounding step in force: the default when none is passed
EffStep == IF args.options.roundStep = Undefined THEN Int2Num(DefaultRoundStep)
           ELSE args.options.roundStep
StepInForce == Returned /\ IsInteger(EffStep) /\ EffStep[2] > 0
OnStep(x) == IsInteger(x) /\ x[2] % EffStep[2] = 0

\* C6 as stated: for every positive step, absolute min/max and draw,
\* proposedRgpMist is an integer multiple of the step.
C6_AlwaysOnStep == StepInForce => OnStep(ret.proposedRgpMist)

\* C6 amended: proposedRgpMist is an integer multiple of the step unless an
\* absolute bound or the floor at 1 overrides the rounded value; it is then
\* the absolute min or max (rounded to an integer) or 1.
C6_OnStepOrBound ==
    StepInForce =>
        \/ OnStep(ret.proposedRgpMist)
        \/ ret.proposedRgpMist = Int2Num(1)
        \/ /\ IsFinite(args.options.minRgpMist)
           /\ ret.proposedRgpMist = MathRound(args.options.minRgpMist)
        \/ /\ IsFinite(args.options.maxRgpMist)
           /\ ret.proposedRgpMist = MathRound(args.options.maxRgpMist)

C6_Witness ==
    /\ StepInForce
    /\ EffStep = Int2Num(10)
    /\ ~OnStep(AfterJitter)
    /\ OnStep(ret.proposedRgpMist)
    /\ Gt(ret.proposedRgpMist, Int2Num(20))

(***************************************************************************)
(* Properties of extractEpoch                                              *)
(***************************************************************************)
Accepted == mpc = "extracted" /\ ~metric.isNull
\* the integer a cost text denotes
CostOf(raw) == StringToBigInt(raw.s).v
\* the text denotes an integer >= 0
NonNegIntText(raw) == ~raw.isNull /\ StringToBigInt(raw.s).ok /\ CostOf(raw) >= 0
CostsNonNegative ==
    /\ NonNegIntText(node.computationCost)
    /\ NonNegIntText(node.storageCost)
    /\ NonNegIntText(node.storageRebate)
TxOf == ToNumber(node.totalTransactions)

\* C7: for every accepted record (cost fields as the data model has them,
\* non-negative integers) totalGasFee = computation + storage - rebate,
\* avgTotalPerTx = floor(totalGasFee / txCount) and
\* avgCompPerTx = floor(computation / txCount), floor also when the
\* numerator is negative.
C7_ExactFloorAverages ==
    (Accepted /\ CostsNonNegative) =>
        LET total == CostOf(node.computationCost) + CostOf(node.storageCost)
                        - CostOf(node.storageRebate)
        IN  /\ metric.totalGasFee = total
            /\ metric.avgTotalPerTx = total \div TxOf[2]
            /\ metric.avgCompPerTx = CostOf(node.computationCost) \div TxOf[2]

\* C8: every EpochMetric returned has totalGasFee >= 0, avgTotalPerTx >= 0
\* and avgCompPerTx >= 0.
C8_MetricNonNegative ==
    Accepted =>
        /\ metric.totalGasFee >= 0
        /\ metric.avgTotalPerTx >= 0
        /\ metric.avgCompPerTx >= 0

\* the record is one the contract says is skipped
MustSkip ==
    \/ node.checkpoints # "ok"
    \/ ~CostsNonNegative
    \/ ~(IsFinite(TxOf) /\ Gt(TxOf, Int2Num(0)))

\* C9: a record is skipped (null returned, nothing raised) exactly when the
\* gas-cost breakdown is absent, a cost is no non-negative integer or the
\* transaction count is no positive finite number; every other record
\* yields an EpochMetric.
C9_SkipExactly ==
    (mpc \in {"extracted", "extractThrew"}) =>
        /\ MustSkip => (mpc = "extracted" /\ metric.isNull)
        /\ ~MustSkip => Accepted

(***************************************************************************)
(* Properties of collectMetrics                                            *)
(***************************************************************************)
\* a record without defect: breakdown present, costs non-negative integers,
\* transaction count a positive integer
SoundRecord(n) ==
    /\ n.checkpoints = "ok"
    /\ \A f \in {n.computationCost, n.storageCost, n.storageRebate} : NonNegIntText(f)
    /\ LET t == ToNumber(n.totalTransactions) IN IsInteger(t) /\ t[2] > 0
SoundIndexes == { i \in 1..Len(nodes.list) : SoundRecord(nodes.list[i]) }

\* C10: when the response holds at least one sound record, defective records
\* (missing fields, unparsable costs, non-positive or non-integer
\* transaction count) raise nothing and are left out, and aggregation
\* completes over exactly the sound ones.
C10_DefectiveNeverFatal ==
    (mpc \in {"collected", "collectThrew"} /\ nodes.resp = "ok" /\ SoundIndexes # {}) =>
        /\ mpc = "collected"
        /\ payload.overall.epochsIncluded = Cardinality(SoundIndexes)
        /\ Len(payload.rows) = Cardinality(SoundIndexes)

(***************************************************************************)
(* Properties of roundToStep                                               *)
(***************************************************************************)
\* x is a whole multiple of step
MultipleOf(x, step) == IsInteger(Div(x, step))

\* C16: for every value x and positive step, rounding the rounded value
\* again gives the same value, the rounded value is a multiple of the step,
\* and a value that is already a multiple of the step is returned unchanged.
C16_RoundIdempotent ==
    /\ rnd.pc = "twice" => rnd.twice = rnd.once
    /\ rnd.pc \in {"once", "twice"} =>
          /\ MultipleOf(rnd.once, rnd.step)
          /\ MultipleOf(rnd.x, rnd.step) => rnd.once = rnd.x

C16_Witness ==
    /\ rnd.pc = "twice"
    /\ rnd.step = Int2Num(3)
    /\ rnd.x = Num(19, 4)
    /\ rnd.once = Int2Num(6)
    /\ rnd.twice = Int2Num(6)

(***************************************************************************)
(* Properties of the calculator's echo, scale factor and jitter            *)
(***************************************************************************)
\* the bounds the echoed percentages give for the current price
EchoBounds ==
    << Mul(args.currentRgp, Add(Int2Num(1), Div(ret.inputs.guardRailsPct[1], Int2Num(100)))),
       Mul(args.currentRgp, Add(Int2Num(1), Div(ret.inputs.guardRailsPct[2], Int2Num(100)))) >>

\* C14: the echoed roundStep, guardRailsPct and jitterRange of a returned
\* result are the step, percentages and magnitudes that produced
\* calc.R_final, calc.clampMin, calc.clampMax and calc.jitter.
C14_EchoIsConfigUsed ==
    Returned =>
        /\ ret.calc.R_final =
              finalAssembly(AfterJitter, [args.options EXCEPT !.roundStep = ret.inputs.roundStep])
        /\ RailsOn => /\ ret.calc.clampMin = EchoBounds[1]
                      /\ ret.calc.clampMax = EchoBounds[2]
        /\ ret.calc.jitter \in
              chooseJitter(ret.calc.R_clamped, ret.calc.clampMin, ret.calc.clampMax,
                           ret.inputs.jitterRange[1], ret.inputs.jitterRange[2])

\* R_now = 500, s = 0.6, C = 0.002, T = 0.004 with guard rails [-40, 40] %
Scenario500 ==
    /\ args.currentRgp = Int2Num(500)
    /\ args.compShare = Num(6, 10)
    /\ args.compCostUsd = Num(2, 1000)
    /\ args.targetAvgTxUsd = Num(4, 1000)
    /\ RailsOn
    /\ args.options.guardRailsPct = [def |-> TRUE, v |-> <<Int2Num(-40), Int2Num(40)>>]

\* the larger and the smaller of two integers
IntMax(a, b) == IF a >= b THEN a ELSE b
IntMin(a, b) == IF a <= b THEN a ELSE b

\* C15: for valid inputs k * C = s * T and R_raw * C = R_now * s * T; the
\* inputs R_now = 500, s = 0.6, C = 0.002, T = 0.004 give k = 1.2 and
\* R_raw = 600, and with guard rails [-40, 40] % the band is [300, 700],
\* R_clamped = 600 and the jitter lies in the interior range.
C15_RawProposal ==
    Returned =>
        /\ Mul(ret.calc.k, args.compCostUsd) = Mul(args.compShare, args.targetAvgTxUsd)
        /\ Mul(ret.calc.R_raw, args.compCostUsd) =
              Mul(args.currentRgp, Mul(args.compShare, args.targetAvgTxUsd))
        /\ Scenario500 =>
              /\ ret.calc.k = Num(6, 5)
              /\ ret.calc.R_raw = Int2Num(600)
              /\ ret.calc.clampMin = Int2Num(300)
              /\ ret.calc.clampMax = Int2Num(700)
              /\ ret.calc.R_clamped = Int2Num(600)
              /\ ret.calc.jitter >= IntMax(-ret.inputs.jitterRange[1], -300)
              /\ ret.calc.jitter <= IntMin(ret.inputs.jitterRange[2], 100)

C15_Witness ==
    /\ Returned
    /\ Scenario500
    /\ ret.inputs.jitterRange = <<MaxJitter, MaxJitter>>
    /\ ret.calc.jitter = -MaxJitter
    /\ ret.calc.R_raw = Int2Num(600)

\* C17: the jitter of a returned result is an integer of the range of its
\* state: [-baseLow, baseHigh] without guard rails, [0, baseHigh] at
\* clampMin, [-baseLow, 0] at clampMax, and inside the band the base range
\* cut to the room left, or 0 when that is empty.
C17_JitterInPrescribedRange ==
    Returned =>
        LET j == ret.calc.jitter
            baseLow == ret.inputs.jitterRange[1]
            baseHigh == ret.inputs.jitterRange[2]
            lo == MathMax(Int2Num(-baseLow), MathCeil(Sub(ret.calc.clampMin, ret.calc.R_clamped)))
            hi == MathMin(Int2Num(baseHigh), MathFloor(Sub(ret.calc.clampMax, ret.calc.R_clamped)))
        IN  /\ ~RailsOn => (-baseLow <= j /\ j <= baseHigh)
            /\ RailsOn /\ ret.calc.R_clamped = ret.calc.clampMin => (0 <= j /\ j <= baseHigh)
            /\ RailsOn /\ ret.calc.R_clamped = ret.calc.clampMax => (-baseLow <= j /\ j <= 0)
            /\ RailsOn /\ ret.calc.R_clamped # ret.calc.clampMin
                       /\ ret.calc.R_clamped # ret.calc.clampMax =>
                  IF Gt(lo, hi) THEN j = 0
                  ELSE Le(lo, Int2Num(j)) /\ Le(Int2Num(j), hi)

(***************************************************************************)
(* Properties of the aggregate handed to the calculator                    *)
(***************************************************************************)
Collected == mpc = "collected"

\* C12: the mean computation share of a collected payload is a finite
\* number in [0, 1], and it is not a share the calculator rejects (it is
\* greater than 0).
C12_ShareIsFraction ==
    Collected =>
        LET s == payload.overallForRgp.avgCompShare
        IN  /\ IsFinite(s)
            /\ Le(Int2Num(0), s)
            /\ Le(s, Int2Num(1))
            /\ Gt(s, Int2Num(0))

\* the price map has a price for the date
HasPrice(date) ==
    /\ date # 0
    /\ date \in DOMAIN nodes.priceMap
    /\ nodes.priceMap[date] # Undefined

\* 0 for no price, else the date whose price the row must carry
PriceDate(row) ==
    IF HasPrice(row.m.endDate) THEN row.m.endDate
    ELSE IF HasPrice(row.m.startDate) THEN row.m.startDate
    ELSE 0

\* value f of the rows that must carry a price, NaN for the others
PricedOnly(f(_)) ==
    [i \in 1..Len(payload.rows) |->
        IF PriceDate(payload.rows[i]) = 0 THEN NaN ELSE f(payload.rows[i])]

ExpectedPrice(row) == nodes.priceMap[PriceDate(row)]
ExpectedTotalUsd(row) ==
    Mul(Div(Int2Num(row.m.avgTotalPerTx), Int2Num(MIST_PER_SUI)), ExpectedPrice(row))
ExpectedCompUsd(row) ==
    Mul(Div(Int2Num(row.m.avgCompPerTx), Int2Num(MIST_PER_SUI)), ExpectedPrice(row))
TotalGasFeeOf(row) == row.m.totalGasFee
AvgTotalPerTxOf(row) == row.m.avgTotalPerTx

\* C13: every row of a collected payload carries the price at its end date,
\* else the price at its start date, else no price and no USD fields; the
\* USD means are the means over the rows with a price, while epochsIncluded
\* and the fee-unit means count every row.
C13_PriceAttach ==
    Collected =>
        /\ \A i \in 1..Len(payload.rows) :
              LET row == payload.rows[i]
              IN  IF PriceDate(row) = 0
                  THEN /\ row.price_usd = NAText
                       /\ row.avgTotalPerTx_USD = NAText
                       /\ row.avgCompPerTx_USD = NAText
                  ELSE /\ row.price_usd = ExpectedPrice(row)
                       /\ row.avgTotalPerTx_USD = ExpectedTotalUsd(row)
                       /\ row.avgCompPerTx_USD = ExpectedCompUsd(row)
        /\ payload.overall.num.avgPriceUSD = averageNumbers(PricedOnly(ExpectedPrice))
        /\ payload.overall.num.avgTotalCostPerTx_USD =
              averageNumbers(PricedOnly(ExpectedTotalUsd))
        /\ payload.overall.num.avgComputationCostPerTx_USD =
              averageNumbers(PricedOnly(ExpectedCompUsd))
        /\ payload.overall.epochsIncluded = Len(payload.rows)
        /\ payload.overall.avgTotalGasPerEpoch =
              BigIntDiv(SumInt([i \in 1..Len(payload.rows) |-> TotalGasFeeOf(payload.rows[i])]),
                        Len(payload.rows))
        /\ payload.overall.avgTotalPerTxSimple =
              BigIntDiv(SumInt([i \in 1..Len(payload.rows) |-> AvgTotalPerTxOf(payload.rows[i])]),
                        Len(payload.rows))

\* two rows: the first priced by the fall-back to its start date, the second
\* with no price, left out of the USD mean but counted
C13_Witness ==
    /\ Collected
    /\ Len(payload.rows) = 2
    /\ nodes.priceMap = <<Int2Num(4000000)>>
    /\ payload.rows[1].m.endDate = 2
    /\ payload.rows[1].price_usd = Int2Num(4000000)
    /\ payload.rows[2].price_usd = NAText
    /\ payload.overall.num.avgPriceUSD = Int2Num(4000000)
    /\ payload.overall.epochsIncluded = 2

\* no record of the list comes out of extractEpoch as a metric
NoneValid(list) ==
    \A i \in 1..Len(list) : extractEpoch(list[i]).threw \/ extractEpoch(list[i]).m.isNull

\* C11: summarize returns a null overall exactly for no rows; a response none
\* of whose records is valid makes collectMetrics fail without a summary, and
\* computeRgp then fails too and carries no proposal.
C11_ZeroValidIsFatal ==
    /\ mpc = "summarized" => (payload.overall.isNull <=> Len(payload.rows) = 0)
    /\ (mpc \in {"collected", "collectThrew"} /\ nodes.resp = "ok" /\ NoneValid(nodes.list)) =>
          /\ mpc = "collectThrew"
          /\ payload.overall.isNull
          /\ cpc # "idle" => (cpc = "threw" /\ ~IsFinite(ret.proposedRgpMist))

C11_Witness ==
    /\ mpc = "collectThrew"
    /\ nodes.resp = "ok"
    /\ Len(nodes.list) = 2
    /\ NoneValid(nodes.list)
    /\ payload.error = "no usable epochs"
    /\ cpc = "threw"
    /\ ret.error = "no usable epochs"

(***************************************************************************)
(* Properties of a scheduled run                                           *)
(***************************************************************************)
\* computeRgp has called the calculator in this run
CalculatorCalled == mpc = "collected" /\ cpc \in {"threw", "returned"}

\* C18: whatever RGP_JITTER_RANGE holds, the magnitudes computeRgp passes to
\* the calculator are non-negative integers.
C18_MagnitudesNonNegative ==
    CalculatorCalled =>
        /\ args.options.jitterRange.v[1] \in Nat
        /\ args.options.jitterRange.v[2] \in Nat

ProposalValid ==
    /\ cpc = "returned"
    /\ IsFinite(ret.proposedRgpMist)
    /\ Gt(ret.proposedRgpMist, Int2Num(0))
UpdateAllowed == ~bool(env.DRY_RUN, FALSE) /\ bool(env.UPDATE_ONCHAIN, FALSE)
UpdateConfigured ==
    /\ ~reqThrows(env.MAINNET_RPC_URL)
    /\ ~reqThrows(env.MAINNET_OPERATION_PRIVATE_KEY)
    /\ ~reqThrows(env.MAINNET_OPERATION_CAP_ID)
    /\ ~reqThrows(env.MAINNET_GAS_BUDGET)

\* C19: in a run updateGasPrice is called at most once, and only with a
\* finite proposal > 0, DRY_RUN false and UPDATE_ONCHAIN true, after a push
\* was attempted and with the proposal itself; a run that got past the pushes
\* and is allowed and configured to update has called it, failed push or not.
C19_UpdateGuarded ==
    /\ Len(run.onchain) <= 1
    /\ Len(run.onchain) = 1 =>
          /\ ProposalValid
          /\ UpdateAllowed
          /\ Len(run.pushes) >= 1
          /\ run.onchain[1] = ret.proposedRgpMist
    /\ (run.pc \in {"submitted", "done"} /\ UpdateAllowed /\ UpdateConfigured) =>
          Len(run.onchain) = 1

\* the push failed and the update went out all the same
C19_Witness ==
    /\ run.pc = "done"
    /\ run.outcome = "updated"
    /\ Len(run.pushes) = 1
    /\ run.pushes[1].threw
    /\ run.pushes[1].error = "push failed"
    /\ run.onchain = <<ret.proposedRgpMist>>

\* C20: every pushGauge call of a run starts with an empty registry and none
\* fails because a gauge of an earlier call is still registered.
C20_PushStartsClean ==
    \A i \in 1..Len(run.pushes) :
        /\ run.pushes[i].before = {}
        /\ run.pushes[i].error # "already registered"

====
